---- MODULE Spec2Model ----
(***************************************************************************)
(* A model of the segmented transcription pipeline of speech_to_text:     *)
(* transcribe_whisper.py (format_timestamp, get_audio_duration,           *)
(* extract_segment, transcribe_audio).                                    *)
(*                                                                         *)
(* Times.  A Python float number of seconds is modelled as a record       *)
(* [s |-> whole seconds (floor), f |-> fraction in tenths of a            *)
(* microsecond], one decimal digit below the resolution of                *)
(* datetime.timedelta, so that timedelta's rounding to the microsecond    *)
(* and the later cut of the text to milliseconds are both observable.     *)
(*                                                                         *)
(* Text.  A Python str is modelled as a sequence of one-character         *)
(* strings, so that slicing and replace act on characters.                *)
(***************************************************************************)
EXTENDS Integers, Sequences, FiniteSets, TLC

VARIABLES
    pc,             \* position in the running function
    audio,          \* the true length of the audio file (a Time)
    segment_length, \* transcribe_audio's segment_length argument
    probe,          \* how get_audio_duration ended: "none", "wave", "pydub", "failed"
    duration,       \* transcribe_audio's local duration (NoTime before the probe)
    sink,           \* the output file: "absent", "open", "closed"
    srt_file,       \* the lines written to the output file, in file order
    subtitle_index, \* transcribe_audio's local subtitle_index
    starts,         \* the values of range(0, int(duration), segment_length)
    win,            \* how many values of the range the for loop has taken
    segment_start,  \* the loop variable
    segment_end,    \* min(segment_start + segment_length, duration)
    files,          \* the temporary chunk files that exist on disk
    result,         \* result["segments"] of the model.transcribe call being written
                    \* (<<>> once its window is over: it is not read again)
    written,        \* how many segments of result have been written as cues
    windows,        \* history: the windows the loop has started, in order
    engine_calls,   \* history: the arguments of model.transcribe, in order
    log,            \* history: how each window (or the whole-file pass) ended
    outcome,        \* how transcribe_audio ended: "running", "path" (output_path
                    \* returned), "none" (None returned), "raised"
    seconds,        \* format_timestamp's argument
    timestamp,      \* format_timestamp's return value
    tried,          \* history: the strategies get_audio_duration has tried
    main_pc,        \* position in generate_srt's main ("none": main is not running)
    keep_audio,     \* main's --keep-audio
    audio_only,     \* main's --audio-only
    audio_file,     \* the extracted audio file: "absent", "partial", "complete",
                    \* "removed"
    audio_result,   \* what extract_audio returned: "none" (not called), "path", "None"
    main_return,    \* how main ended: "running", "0", "1", "raised"
    cancel_at,      \* how many windows had been started when a cancellation was
                    \* requested (-1: none requested)
    jobs2,          \* two concurrent transcribe_audio jobs: each one's loop state
    disk,           \* the chunk files in their shared working directory, each
                    \* with the job that wrote it (0: it was there before)
    trespass        \* history: what a job did to a chunk file it had not written

vars == <<pc, audio, segment_length, probe, duration, sink, srt_file,
          subtitle_index, starts, win, segment_start, segment_end, files,
          result, written, windows, engine_calls, log, outcome,
          seconds, timestamp, tried, main_pc, keep_audio, audio_only,
          audio_file, audio_result, main_return, cancel_at, jobs2, disk,
          trespass>>

\* What transcribe_audio and format_timestamp never touch.
outer_vars == <<main_pc, keep_audio, audio_only, audio_file, audio_result,
                main_return, cancel_at, jobs2, disk, trespass>>

(***************************************************************************)
(* Bounds of the model.                                                    *)
(***************************************************************************)
MaxHours == 25          \* format_timestamp is applied to 0 .. MaxHours hours
MaxDuration == 2        \* audio files last 0, 0.5, .. MaxDuration seconds
MaxSegmentLength == 2   \* segment_length ranges over -1 .. MaxSegmentLength
MaxSegments == 2        \* the engine returns 0 .. MaxSegments segments per call

(***************************************************************************)
(* Time arithmetic.                                                        *)
(***************************************************************************)
MicrosPerSecond == 1000 * 1000
TicksPerSecond == 10 * MicrosPerSecond
SecondsPerDay == 24 * 3600

NoTime == [s |-> -1, f |-> -1]

Time(s, f) == [s |-> s, f |-> f]

Whole(n) == [s |-> n, f |-> 0]

\* int + float
AddInt(n, t) == [s |-> n + t.s, f |-> t.f]

TimeLess(a, b) == a.s < b.s \/ (a.s = b.s /\ a.f < b.f)

TimeLeq(a, b) == a = b \/ TimeLess(a, b)

TimeMin(a, b) == IF TimeLeq(a, b) THEN a ELSE b

IsNegative(t) == t.s < 0

\* Python's int(x) of a float: truncation towards zero.
IntOf(t) == IF t.s < 0 /\ t.f > 0 THEN t.s + 1 ELSE t.s

(***************************************************************************)
(* Text.                                                                   *)
(***************************************************************************)
DigitChar(d) == <<"0", "1", "2", "3", "4", "5", "6", "7", "8", "9">>[d + 1]

RECURSIVE Decimal(_)
\* "%d" of a natural number
Decimal(n) == IF n < 10 THEN <<DigitChar(n)>>
              ELSE Decimal(n \div 10) \o <<DigitChar(n % 10)>>

\* "%d" of an integer
SignedDecimal(n) == IF n < 0 THEN <<"-">> \o Decimal(0 - n) ELSE Decimal(n)

RECURSIVE ZeroPad(_, _)
\* "%0wd" of a natural number
ZeroPad(n, w) == IF Len(Decimal(n)) >= w THEN Decimal(n)
                 ELSE <<"0">> \o ZeroPad(n, w - 1)

\* str.replace(old, new) for one-character old and new
Replace(str, old, new) ==
    [k \in 1..Len(str) |-> IF str[k] = old THEN new ELSE str[k]]

\* str[:n]
Prefix(str, n) == SubSeq(str, 1, IF Len(str) < n THEN Len(str) ELSE n)

(***************************************************************************)
(* datetime.timedelta(seconds=x) for a float x: the fraction is rounded to *)
(* the nearest microsecond, ties to even, and the value is normalised to   *)
(* days, 0 <= seconds < 86400, 0 <= microseconds < 1000000.                *)
(***************************************************************************)
RoundMicros(f) ==
    LET q == f \div 10
        r == f % 10
    IN  IF r > 5 \/ (r = 5 /\ q % 2 = 1) THEN q + 1 ELSE q

timedelta(t) ==
    LET us == RoundMicros(t.f)
        s  == IF us = MicrosPerSecond THEN t.s + 1 ELSE t.s
    IN  [days         |-> s \div SecondsPerDay,
         seconds      |-> s % SecondsPerDay,
         microseconds |-> IF us = MicrosPerSecond THEN 0 ELSE us]

\* timedelta.__str__
timedelta_str(td) ==
    LET mm0  == td.seconds \div 60
        ss   == td.seconds % 60
        hh   == mm0 \div 60
        mm   == mm0 % 60
        hms  == Decimal(hh) \o <<":">> \o ZeroPad(mm, 2) \o <<":">> \o ZeroPad(ss, 2)
        plural == IF td.days = 1 \/ td.days = -1 THEN <<>> ELSE <<"s">>
        withDays == IF td.days # 0
                    THEN SignedDecimal(td.days) \o <<" ", "d", "a", "y">> \o plural
                         \o <<",", " ">> \o hms
                    ELSE hms
    IN  IF td.microseconds # 0
        THEN withDays \o <<".">> \o ZeroPad(td.microseconds, 6)
        ELSE withDays

format_timestamp(t) ==
    Prefix(Replace(timedelta_str(timedelta(t)), ".", ","), 11)

(***************************************************************************)
(* The inputs of the model.                                                *)
(***************************************************************************)
\* transcribe_audio's default segment_length
DefaultSegmentLength == 30

HalfSecond == TicksPerSecond \div 2

\* The scenario of the specification: 65 s of audio cut in windows of 30 s.
ScenarioDuration == Whole(2 * DefaultSegmentLength + 5)

\* (audio length, segment_length): every length 0, 0.5, 1, ... up to
\* MaxDuration with every segment_length -1, 0, 1, ..., and the scenario.
Jobs ==
    ({t \in {Time(s, f) : s \in 0..MaxDuration, f \in {0, HalfSecond}} :
         TimeLeq(t, Whole(MaxDuration))}
        \X (-1..MaxSegmentLength))
    \cup {<<ScenarioDuration, DefaultSegmentLength>>}

\* What the engine can return for one utterance: relative start and end, and
\* a text with the leading blank Whisper puts before it.
RawSegments ==
    {[start |-> Whole(5), end |-> Whole(10), text |-> <<" ", "h", "i">>],
     [start |-> Time(0, HalfSecond), end |-> Time(1, HalfSecond \div 2),
      text |-> <<" ", "h", "i">>]}

\* result["segments"]: 0 .. MaxSegments utterances, in the order of their
\* start times
Results ==
    {r \in UNION {[1..n -> RawSegments] : n \in 0..MaxSegments} :
        \A i \in 1..Len(r), j \in 1..Len(r) :
            i < j => TimeLeq(r[i].start, r[j].start)}

\* The arguments format_timestamp is applied to on its own.
FormatWholeSeconds ==
    {h * 3600 + m * 60 + x : h \in 0..MaxHours, m \in {0, 1, 59}, x \in {0, 1, 59}}

FormatFractions ==
    {0, 4, 5, 15, HalfSecond, 1230000, 1239999, 9999994, 9999995}

FormatInputs ==
    {Time(s, f) : s \in FormatWholeSeconds \cup {0 - (x + 1) : x \in FormatWholeSeconds},
                  f \in FormatFractions}

(***************************************************************************)
(* Helpers of transcribe_audio.                                            *)
(***************************************************************************)
RECURSIVE RangeFrom(_, _, _)
RangeFrom(a, stop, step) ==
    IF a < stop THEN <<a>> \o RangeFrom(a + step, stop, step) ELSE <<>>

\* list(range(0, stop, step)) for stop >= 0 and step # 0
range(stop, step) == IF step > 0 THEN RangeFrom(0, stop, step) ELSE <<>>

\* segment_end = min(segment_start + segment_length, duration)
WindowEnd(start, len, dur) == TimeMin(Whole(start + len), dur)

\* f"temp_segment_{segment_start}_{segment_end}.wav"
SegmentFile(start, end) == <<start, end>>

\* A slip: the offset of the window not added.
AdjustNoOffset(start, rel) == rel

\* segment_start + segment["start"], segment_start + segment["end"]
Adjust(start, rel) == AddInt(start, rel)

\* A slip: the counter not advanced.
NextIndexStuck(index) == index

\* subtitle_index += 1
NextIndex(index) == index + 1

\* A slip: a run that wrote no cue reported as a failure.
ReturnPathIfAnyCue(index) == IF index > 1 THEN "path" ELSE "none"

\* return output_path, at the end of the segmented path
ReturnPath(index) == "path"

\* A slip: the chunk left behind.
FinallyKeep(fs, file) == fs

\* finally: if os.path.exists(segment_file): os.remove(segment_file)
Finally(fs, file) == fs \ {file}

\* A slip: an except clause that lets the engine's errors through.
except_OSError(e) == e = "write"

\* except Exception as e: every error raised in the try block is caught
except_Exception(e) == TRUE

RECURSIVE LStrip(_)
LStrip(str) == IF str # <<>> /\ Head(str) = " " THEN LStrip(Tail(str)) ELSE str

RECURSIVE RStrip(_)
RStrip(str) == IF str # <<>> /\ str[Len(str)] = " "
               THEN RStrip(SubSeq(str, 1, Len(str) - 1)) ELSE str

\* str.strip()
Strip(str) == RStrip(LStrip(str))

\* The three writes of one cue: the index line, the timestamp line, the text
\* line with its blank line.  A timestamp line keeps, beside its text, the
\* two numbers format_timestamp was applied to.
CueLines(index, from, to, text) ==
    << [kind |-> "index", index |-> index],
       [kind |-> "time", start |-> from, end |-> to,
        text |-> format_timestamp(from) \o <<" ", "-", "-", ">", " ">>
                 \o format_timestamp(to)],
       [kind |-> "text", text |-> Strip(text)] >>

LogEntry(tag, res, done, partial) ==
    [tag |-> tag, result |-> res, done |-> done, partial |-> partial]

Chunk(file) == [kind |-> "chunk", name |-> file]

WholeAudio == [kind |-> "audio", name |-> <<>>]

segment_file == SegmentFile(segment_start, segment_end)

(***************************************************************************)
(* get_audio_duration: the wave header, else pydub's decode, else raise.   *)
(* pydub measures in whole milliseconds.                                   *)
(***************************************************************************)
PydubDuration(t) == Time(t.s, (t.f \div 10000) * 10000)

Attempt(strategy, ok) == [strategy |-> strategy, ok |-> ok]

\* A slip: the decode run whether or not the header could be read.
ProbeChainAlwaysDecode(wave_ok, pydub_ok) ==
    <<Attempt("wave", wave_ok), Attempt("pydub", pydub_ok)>>

\* The strategies get_audio_duration runs, in order, when the wave header can
\* (wave_ok) or cannot be read and pydub can (pydub_ok) or cannot decode.
ProbeChain(wave_ok, pydub_ok) ==
    IF wave_ok THEN <<Attempt("wave", TRUE)>>
    ELSE <<Attempt("wave", FALSE), Attempt("pydub", pydub_ok)>>

\* The last strategy's value is returned, or its exception raised again; in
\* transcribe_audio the except clause of line 83 then takes the fallback.
get_audio_duration ==
    /\ pc = "probe"
    /\ \E wave_ok \in BOOLEAN, pydub_ok \in BOOLEAN :
         LET chain == ProbeChain(wave_ok, pydub_ok)
             last  == chain[Len(chain)]
         IN  /\ tried' = chain
             /\ IF last.ok
                THEN /\ probe' = last.strategy
                     /\ duration' = IF last.strategy = "wave" THEN audio
                                    ELSE PydubDuration(audio)
                     /\ pc' = "open"
                ELSE /\ probe' = "failed"
                     /\ duration' = duration
                     /\ pc' = "fallback"
    /\ UNCHANGED <<audio, segment_length, sink, srt_file, subtitle_index,
                   starts, win, segment_start, segment_end, files, result,
                   written, windows, engine_calls, log, outcome, seconds,
                   timestamp>>
    /\ UNCHANGED outer_vars

(***************************************************************************)
(* transcribe_audio, the segmented path (lines 100-145).                   *)
(***************************************************************************)
\* with open(output_path, 'w') as srt_file: subtitle_index = 1
open_sink ==
    /\ pc = "open"
    /\ \/ /\ sink' = "open"
          /\ srt_file' = <<>>
          /\ subtitle_index' = 1
          /\ outcome' = outcome
          /\ pc' = "for"
       \/ /\ outcome' = "raised"
          /\ pc' = "done"
          /\ UNCHANGED <<sink, srt_file, subtitle_index>>
    /\ UNCHANGED <<audio, segment_length, probe, duration, starts, win,
                   segment_start, segment_end, files, result, written,
                   windows, engine_calls, log, seconds, timestamp>>
    /\ UNCHANGED <<tried, outer_vars>>

\* range(0, int(duration), segment_length): a step of 0 raises ValueError,
\* which leaves the with block (closing the file) and transcribe_audio.
for_range ==
    /\ pc = "for"
    /\ IF segment_length = 0
       THEN /\ sink' = "closed"
            /\ outcome' = "raised"
            /\ pc' = "done"
            /\ starts' = starts
       ELSE /\ starts' = range(IntOf(duration), segment_length)
            /\ pc' = "loop"
            /\ UNCHANGED <<sink, outcome>>
    /\ UNCHANGED <<audio, segment_length, probe, duration, srt_file,
                   subtitle_index, win, segment_start, segment_end, files,
                   result, written, windows, engine_calls, log, seconds,
                   timestamp>>
    /\ UNCHANGED <<tried, outer_vars>>

\* The for statement takes the next value of the range, or ends: the file is
\* closed and output_path returned.
for_next ==
    /\ pc = "loop"
    /\ IF win < Len(starts)
       THEN LET start == starts[win + 1]
                end   == WindowEnd(start, segment_length, duration)
            IN  /\ win' = win + 1
                /\ segment_start' = start
                /\ segment_end' = end
                /\ windows' = Append(windows, [start |-> start, end |-> end])
                /\ pc' = "extract"
                /\ UNCHANGED <<sink, outcome>>
       ELSE /\ sink' = "closed"
            /\ outcome' = ReturnPath(subtitle_index)
            /\ pc' = "done"
            /\ UNCHANGED <<win, segment_start, segment_end, windows>>
    /\ UNCHANGED <<audio, segment_length, probe, duration, srt_file,
                   subtitle_index, starts, files, result, written,
                   engine_calls, log, seconds, timestamp>>
    /\ UNCHANGED <<tried, outer_vars>>

\* extract_segment returns True with the chunk exported, or False: the export
\* may or may not have left a file.  On False the window is skipped: continue
\* runs the finally clause and goes to the next window.
extract_segment ==
    /\ pc = "extract"
    /\ \/ /\ files' = files \cup {segment_file}
          /\ pc' = "transcribe"
          /\ log' = log
       \/ \E left \in BOOLEAN :
            /\ files' = Finally(IF left THEN files \cup {segment_file} ELSE files,
                                segment_file)
            /\ log' = Append(log, LogEntry("skipped", <<>>, 0, 0))
            /\ pc' = "loop"
    /\ UNCHANGED <<audio, segment_length, probe, duration, sink, srt_file,
                   subtitle_index, starts, win, segment_start, segment_end,
                   result, written, windows, engine_calls, outcome, seconds,
                   timestamp>>
    /\ UNCHANGED <<tried, outer_vars>>

\* An exception e raised in the try block, after the file has become newfile:
\* caught, the loop goes on; not caught, it leaves the with block and
\* transcribe_audio.  The finally clause runs either way.
WindowException(e, newfile, entry) ==
    /\ srt_file' = newfile
    /\ log' = Append(log, entry)
    /\ files' = Finally(files, segment_file)
    /\ result' = <<>>
    /\ written' = 0
    /\ IF except_Exception(e)
       THEN /\ pc' = "loop"
            /\ UNCHANGED <<sink, outcome>>
       ELSE /\ pc' = "done"
            /\ sink' = "closed"
            /\ outcome' = "raised"

\* result = model.transcribe(segment_file, word_timestamps=True)
transcribe_segment ==
    /\ pc = "transcribe"
    /\ engine_calls' = Append(engine_calls, Chunk(segment_file))
    /\ \/ /\ WindowException("transcribe", srt_file,
                             LogEntry("raised", <<>>, 0, 0))
       \/ \E r \in Results :
            /\ result' = r
            /\ written' = 0
            /\ IF r = <<>>
               THEN /\ files' = Finally(files, segment_file)
                    /\ log' = Append(log, LogEntry("wrote", r, 0, 0))
                    /\ pc' = "loop"
               ELSE /\ pc' = "write"
                    /\ UNCHANGED <<files, log>>
            /\ UNCHANGED <<srt_file, sink, outcome>>
    /\ UNCHANGED <<audio, segment_length, probe, duration, subtitle_index,
                   starts, win, segment_start, segment_end, windows, seconds,
                   timestamp>>
    /\ UNCHANGED <<tried, outer_vars>>

\* One turn of "for segment in result["segments"]": the three writes and
\* subtitle_index += 1, or an exception at the first, second or third write
\* (or in what the write formats).
write_cue ==
    /\ pc = "write"
    /\ LET seg   == result[written + 1]
           lines == CueLines(subtitle_index,
                             Adjust(segment_start, seg.start),
                             Adjust(segment_start, seg.end), seg.text)
       IN  \/ /\ srt_file' = srt_file \o lines
              /\ subtitle_index' = NextIndex(subtitle_index)
              /\ IF written + 1 = Len(result)
                 THEN /\ files' = Finally(files, segment_file)
                      /\ log' = Append(log, LogEntry("wrote", result, written + 1, 0))
                      /\ result' = <<>>
                      /\ written' = 0
                      /\ pc' = "loop"
                 ELSE /\ written' = written + 1
                      /\ pc' = "write"
                      /\ UNCHANGED <<files, log, result>>
              /\ UNCHANGED <<sink, outcome>>
           \/ \E n \in 0..2 :
                /\ WindowException("write", srt_file \o SubSeq(lines, 1, n),
                                   LogEntry("faulted", SubSeq(result, 1, written + 1),
                                            written, n))
                /\ UNCHANGED subtitle_index
    /\ UNCHANGED <<audio, segment_length, probe, duration, starts, win,
                   segment_start, segment_end, windows, engine_calls,
                   seconds, timestamp>>
    /\ UNCHANGED <<tried, outer_vars>>

(***************************************************************************)
(* transcribe_audio, the whole-file fallback (lines 83-97).                *)
(***************************************************************************)
\* A slip: the fallback's call wrapped in a try that goes on with no segment.
fallback_except_Exception(e) == TRUE

\* Line 88 stands in the except clause of the probe, in no try block of its
\* own: nothing in transcribe_audio catches what it raises.
fallback_except(e) == FALSE

\* result = model.transcribe(audio_path)
fallback_transcribe ==
    /\ pc = "fallback"
    /\ engine_calls' = Append(engine_calls, WholeAudio)
    /\ \/ /\ log' = Append(log, LogEntry("raised", <<>>, 0, 0))
          /\ IF fallback_except("transcribe")
             THEN /\ pc' = "fallback_open"
                  /\ outcome' = outcome
             ELSE /\ pc' = "done"
                  /\ outcome' = "raised"
          /\ UNCHANGED <<result, written>>
       \/ \E r \in Results :
            /\ result' = r
            /\ written' = 0
            /\ pc' = "fallback_open"
            /\ UNCHANGED <<outcome, log>>
    /\ UNCHANGED <<audio, segment_length, probe, duration, sink, srt_file,
                   subtitle_index, starts, win, segment_start, segment_end,
                   files, windows, seconds, timestamp>>
    /\ UNCHANGED <<tried, outer_vars>>

\* with open(output_path, 'w') as srt_file
fallback_open ==
    /\ pc = "fallback_open"
    /\ \/ /\ sink' = "open"
          /\ srt_file' = <<>>
          /\ outcome' = outcome
          /\ pc' = "fallback_write"
       \/ /\ outcome' = "raised"
          /\ pc' = "done"
          /\ UNCHANGED <<sink, srt_file>>
    /\ UNCHANGED <<audio, segment_length, probe, duration, subtitle_index,
                   starts, win, segment_start, segment_end, files, result,
                   written, windows, engine_calls, log, seconds, timestamp>>
    /\ UNCHANGED <<tried, outer_vars>>

\* A slip: the cues of the fallback numbered from 0.
FallbackIndexFromZero(i) == i - 1

\* for i, segment in enumerate(result["segments"], 1)
FallbackIndex(i) == i

\* One turn of the fallback's for loop, or its end: the file is closed and
\* output_path returned.  An exception at a write is caught by nothing.
fallback_write ==
    /\ pc = "fallback_write"
    /\ IF written = Len(result)
       THEN /\ sink' = "closed"
            /\ outcome' = "path"
            /\ log' = Append(log, LogEntry("wrote", result, written, 0))
            /\ pc' = "done"
            /\ UNCHANGED <<srt_file, written>>
       ELSE LET seg   == result[written + 1]
                lines == CueLines(FallbackIndex(written + 1), seg.start,
                                  seg.end, seg.text)
            IN  \/ /\ srt_file' = srt_file \o lines
                   /\ written' = written + 1
                   /\ pc' = "fallback_write"
                   /\ UNCHANGED <<sink, outcome, log>>
                \/ \E n \in 0..2 :
                     /\ srt_file' = srt_file \o SubSeq(lines, 1, n)
                     /\ sink' = "closed"
                     /\ outcome' = "raised"
                     /\ log' = Append(log, LogEntry("faulted", result, written, n))
                     /\ pc' = "done"
                     /\ written' = written
    /\ UNCHANGED <<audio, segment_length, probe, duration, subtitle_index,
                   starts, win, segment_start, segment_end, files, result,
                   windows, engine_calls, seconds, timestamp>>
    /\ UNCHANGED <<tried, outer_vars>>

(***************************************************************************)
(* The job: transcribe_audio on one audio file.                            *)
(***************************************************************************)
\* No main, no cancellation and no second job: transcribe_audio called as it
\* is from transcribe_whisper's own main.
OuterIdle ==
    /\ main_pc = "none"
    /\ keep_audio = FALSE
    /\ audio_only = FALSE
    /\ audio_file = "absent"
    /\ audio_result = "none"
    /\ main_return = "running"
    /\ cancel_at = -1
    /\ jobs2 = <<>>
    /\ disk = {}
    /\ trespass = {}

\* transcribe_audio has not run a line yet.
NothingDoneYet ==
    /\ probe = "none"
    /\ duration = NoTime
    /\ sink = "absent"
    /\ srt_file = <<>>
    /\ subtitle_index = 0
    /\ starts = <<>>
    /\ win = 0
    /\ segment_start = 0
    /\ segment_end = NoTime
    /\ files = {}
    /\ result = <<>>
    /\ written = 0
    /\ windows = <<>>
    /\ engine_calls = <<>>
    /\ log = <<>>
    /\ outcome = "running"
    /\ seconds = NoTime
    /\ timestamp = <<>>
    /\ tried = <<>>

Init ==
    /\ pc = "probe"
    /\ \E job \in Jobs : audio = job[1] /\ segment_length = job[2]
    /\ NothingDoneYet
    /\ OuterIdle

Next ==
    \/ get_audio_duration
    \/ open_sink
    \/ for_range
    \/ for_next
    \/ extract_segment
    \/ transcribe_segment
    \/ write_cue
    \/ fallback_transcribe
    \/ fallback_open
    \/ fallback_write

Spec == Init /\ [][Next]_vars

(***************************************************************************)
(* format_timestamp on its own: one call on one argument.                  *)
(***************************************************************************)
\* The call returns a text: within the range of timedelta (a thousand
\* million days either way) nothing in format_timestamp raises.
format_timestamp_call ==
    /\ pc = "format"
    /\ timestamp' = format_timestamp(seconds)
    /\ pc' = "format_returned"
    /\ UNCHANGED <<seconds, audio, segment_length, probe, duration, sink,
                   srt_file, subtitle_index, starts, win, segment_start,
                   segment_end, files, result, written, windows,
                   engine_calls, log, outcome>>
    /\ UNCHANGED <<tried, outer_vars>>

InitFormat ==
    /\ pc = "format"
    /\ seconds \in FormatInputs
    /\ timestamp = <<>>
    /\ audio = NoTime
    /\ segment_length = DefaultSegmentLength
    /\ probe = "none"
    /\ duration = NoTime
    /\ sink = "absent"
    /\ srt_file = <<>>
    /\ subtitle_index = 0
    /\ starts = <<>>
    /\ win = 0
    /\ segment_start = 0
    /\ segment_end = NoTime
    /\ files = {}
    /\ result = <<>>
    /\ written = 0
    /\ windows = <<>>
    /\ engine_calls = <<>>
    /\ log = <<>>
    /\ outcome = "running"
    /\ tried = <<>>
    /\ OuterIdle

NextFormat == format_timestamp_call

SpecFormat == InitFormat /\ [][NextFormat]_vars

(***************************************************************************)
(* What the claims are stated with.                                        *)
(***************************************************************************)
\* The run took the segmented path: the duration probe succeeded.
Segmented == probe \in {"wave", "pydub"}

Tags == {log[i].tag : i \in 1..Len(log)}

\* No exception has been raised while a cue was being written.
NoCueFault == "faulted" \notin Tags

IsIndexLine(line) == line.kind = "index"

IsTimeLine(line) == line.kind = "time"

\* The numbers of the index lines of the file, in file order.
IndexLines == LET ls == SelectSeq(srt_file, IsIndexLine)
              IN  [i \in 1..Len(ls) |-> ls[i].index]

\* The (start, end) of the timestamp lines of the file, in file order.
TimeLines == LET ls == SelectSeq(srt_file, IsTimeLine)
             IN  [i \in 1..Len(ls) |-> <<ls[i].start, ls[i].end>>]

\* The window starts that cover the duration the probe returned: 0, W, 2W, ...
\* below int(duration).
NumWindows == (IntOf(duration) + segment_length - 1) \div segment_length

ExpectedStarts == [i \in 1..NumWindows |-> (i - 1) * segment_length]

\* The (start, end) of the first n segments of res, moved by offset seconds.
Moved(res, n, offset) ==
    [k \in 1..n |-> <<[s |-> offset + res[k].start.s, f |-> res[k].start.f],
                      [s |-> offset + res[k].end.s, f |-> res[k].end.f]>>]

\* How many timestamp lines a finished window has written.
TimesOf(entry) == entry.done + (IF entry.partial = 2 THEN 1 ELSE 0)

RECURSIVE ExpectedTimesUpTo(_)
\* The timestamp lines the first n finished windows must have left.
ExpectedTimesUpTo(n) ==
    IF n = 0 THEN <<>>
    ELSE ExpectedTimesUpTo(n - 1)
         \o Moved(log[n].result, TimesOf(log[n]), windows[n].start)

\* ... and those of the window in progress.
ExpectedTimes ==
    ExpectedTimesUpTo(Len(log))
    \o (IF pc = "write" THEN Moved(result, written, segment_start) ELSE <<>>)

(***************************************************************************)
(* C1.  In the segmented path, whatever the windows' outcomes (extraction  *)
(* failed, transcription raised, zero segments, k segments), the index     *)
(* lines of the file are 1, 2, ..., N in file order, and N is the number   *)
(* of cues the counter has handed out.  (An exception in the middle of a   *)
(* cue is not one of these outcomes.)                                      *)
(***************************************************************************)
C1_IndexLinesAreOneToN ==
    (Segmented /\ sink # "absent" /\ NoCueFault) =>
        /\ IndexLines = [i \in 1..Len(IndexLines) |-> i]
        /\ Len(IndexLines) = subtitle_index - 1

\* Two windows that wrote cues, with a skipped window between them.
C1_Witness ==
    /\ pc = "done" /\ Segmented /\ NoCueFault
    /\ \E i, j, k \in 1..Len(log) :
         /\ i < j /\ j < k
         /\ log[i].tag = "wrote" /\ log[i].done >= 1
         /\ log[j].tag = "skipped"
         /\ log[k].tag = "wrote" /\ log[k].done >= 1

(***************************************************************************)
(* C2.  For every duration D >= 0 and window length W > 0 the windows of   *)
(* a finished run tile [0, D): the first starts at 0, each ends at         *)
(* min(start + W, D), each starts where the one before ended, and the last *)
(* ends at D.                                                              *)
(***************************************************************************)
C2_WindowsTileTheDuration ==
    (Segmented /\ segment_length > 0 /\ pc = "done" /\ outcome = "path") =>
        /\ windows = <<>> => duration = Whole(0)
        /\ windows # <<>> =>
             /\ windows[1].start = 0
             /\ \A i \in 1..Len(windows) :
                  windows[i].end =
                      TimeMin(Whole(windows[i].start + segment_length), duration)
             /\ \A i \in 1..(Len(windows) - 1) :
                  Whole(windows[i + 1].start) = windows[i].end
             /\ windows[Len(windows)].end = duration

(***************************************************************************)
(* C3.  No temporary chunk exists when a window iteration starts nor when  *)
(* transcribe_audio has ended, and the only chunk that ever exists is the  *)
(* one of the window in progress.                                          *)
(***************************************************************************)
C3_NoChunkBetweenWindows ==
    /\ pc \in {"loop", "done"} => files = {}
    /\ files \subseteq {segment_file}

\* A finished run with a skipped window, a window that wrote cues and a
\* window whose cue writing raised.
C3_Witness ==
    /\ pc = "done" /\ Segmented
    /\ {"skipped", "wrote", "faulted"} \subseteq Tags
    /\ \E i \in 1..Len(log) : log[i].tag = "wrote" /\ log[i].done >= 1

(***************************************************************************)
(* C4.  A window-scoped failure never ends the loop: a finished run has    *)
(* started every window of the range, in increasing order of start, and    *)
(* each has ended; and the step of a failed extraction leaves the file and *)
(* the index counter as they were.                                         *)
(***************************************************************************)
C4_EveryWindowAttempted ==
    /\ [](  (Segmented /\ segment_length > 0 /\ sink # "absent" /\ pc = "done") =>
              /\ [i \in 1..Len(windows) |-> windows[i].start] = ExpectedStarts
              /\ Len(log) = NumWindows
              /\ \A i \in 1..(Len(windows) - 1) :
                   windows[i].start < windows[i + 1].start  )
    /\ [][ (pc = "extract" /\ pc' = "loop") =>
             (srt_file' = srt_file /\ subtitle_index' = subtitle_index) ]_vars

\* A finished run whose first window failed extraction, whose second raised
\* in the engine, and whose third wrote a cue numbered 1.
C4_Witness ==
    /\ pc = "done" /\ Segmented /\ Len(log) = 3
    /\ log[1].tag = "skipped"
    /\ log[2].tag = "raised"
    /\ log[3].tag = "wrote" /\ log[3].done = 1
    /\ IndexLines = <<1>>

(***************************************************************************)
(* C5.  A failed write to the output file is fatal: once a write has       *)
(* raised while cues were being written, transcribe_audio has ended, with  *)
(* the failure as its outcome.                                             *)
(***************************************************************************)
C5_WriteFailureIsFatal ==
    (Segmented /\ ~NoCueFault) => (pc = "done" /\ outcome = "raised")

(***************************************************************************)
(* C6.  When the duration probe fails the engine is called once, on the    *)
(* whole audio file; no window and no chunk ever exists; and a run that    *)
(* returns the path has written one cue per returned segment, numbered     *)
(* 1..N in the returned order, with the engine's own start and end.        *)
(***************************************************************************)
C6_FallbackWritesEngineTimes ==
    probe = "failed" =>
        /\ windows = <<>> /\ files = {}
        /\ engine_calls \in {<<>>, <<WholeAudio>>}
        /\ pc = "done" => engine_calls = <<WholeAudio>>
        /\ outcome = "path" =>
             /\ Len(srt_file) = 3 * Len(result)
             /\ IndexLines = [k \in 1..Len(result) |-> k]
             /\ TimeLines = [k \in 1..Len(result) |->
                                <<result[k].start, result[k].end>>]

\* The fallback has returned the path for two different segments.
C6_Witness ==
    /\ probe = "failed" /\ outcome = "path"
    /\ Len(result) = 2 /\ result[1] # result[2]
    /\ Len(srt_file) = 6

(***************************************************************************)
(* C7.  In the segmented path every timestamp line holds the start of its  *)
(* window plus the segment's relative start and end, unclamped.            *)
(***************************************************************************)
C7_AbsoluteIsWindowStartPlusRelative ==
    (Segmented /\ sink # "absent") => TimeLines = ExpectedTimes

\* The scenario: 65 s in windows of 30 s, (5, 10) returned for each window:
\* cues (5, 10), (35, 40), (65, 70) numbered 1, 2, 3.
C7_Witness ==
    /\ pc = "done" /\ Segmented
    /\ audio = ScenarioDuration /\ segment_length = DefaultSegmentLength
    /\ [i \in 1..Len(windows) |-> windows[i].start] = <<0, 30, 60>>
    /\ \A i \in 1..Len(log) :
         /\ log[i].tag = "wrote"
         /\ Len(log[i].result) = 1
         /\ log[i].result[1].start = Whole(5)
         /\ log[i].result[1].end = Whole(10)
    /\ TimeLines = << <<Whole(5), Whole(10)>>, <<Whole(35), Whole(40)>>,
                      <<Whole(65), Whole(70)>> >>
    /\ IndexLines = <<1, 2, 3>>

(***************************************************************************)
(* C8.  Once the output file has been opened, a run of the segmented path  *)
(* with a positive window length ends by returning the output path, the    *)
(* file closed; when every window failed extraction the file is empty.     *)
(* Until it has ended the run is at a statement that can execute, and the  *)
(* loop takes each value of the range once.                                *)
(***************************************************************************)
C8_ReturnsPathOnceSinkOpened ==
    (Segmented /\ segment_length > 0 /\ sink # "absent") =>
        /\ pc # "done" =>
             /\ outcome = "running"
             /\ pc \in {"for", "loop", "extract", "transcribe", "write"}
             /\ pc = "write" => written < Len(result)
        /\ win <= Len(starts) /\ Len(windows) = win
        /\ pc = "done" =>
             /\ outcome = "path"
             /\ sink = "closed"
             /\ Tags \subseteq {"skipped"} => srt_file = <<>>

\* A finished run of at least two windows, all skipped.
C8_Witness ==
    /\ pc = "done" /\ Segmented /\ outcome = "path"
    /\ Len(log) >= 2 /\ Tags = {"skipped"}
    /\ sink = "closed" /\ srt_file = <<>>

(***************************************************************************)
(* C9.  For every non-negative argument format_timestamp returns           *)
(* HH:MM:SS,mmm: hours, minutes and seconds of two digits, a comma, and    *)
(* three digits of milliseconds cut, not rounded.                          *)
(***************************************************************************)
HHMMSSmmm(t) ==
    ZeroPad(t.s \div 3600, 2) \o <<":">> \o ZeroPad((t.s \div 60) % 60, 2)
    \o <<":">> \o ZeroPad(t.s % 60, 2) \o <<",">>
    \o ZeroPad(t.f \div (TicksPerSecond \div 1000), 3)

C9_FormatIsHHMMSSmmm ==
    (pc # "format" /\ ~IsNegative(seconds)) =>
        (pc = "format_returned" /\ timestamp = HHMMSSmmm(seconds))

(***************************************************************************)
(* C10.  format_timestamp of a negative argument fails (InvalidInput) and  *)
(* returns no text.                                                        *)
(***************************************************************************)
C10_NegativeArgumentFails ==
    (pc # "format" /\ IsNegative(seconds)) =>
        (pc = "format_raised" /\ timestamp = <<>>)

(***************************************************************************)
(* generate_srt.py: main extracts the audio of a video (tool.py's          *)
(* extract_audio), transcribes it with transcribe_audio and removes the    *)
(* audio file unless told to keep it.                                      *)
(***************************************************************************)

\* Everything of one transcribe_audio job but its position.
job_data == <<audio, segment_length, probe, duration, sink, srt_file,
              subtitle_index, starts, win, segment_start, segment_end, files,
              result, written, windows, engine_calls, log, outcome,
              seconds, timestamp, tried>>

\* The videos and --segment values main is run on.
MainJobs == {job \in Jobs : job[1] \in {Time(1, HalfSecond), Whole(MaxDuration)}}

\* What extract_audio returns when its first write of the audio file works
\* (primary_ok) or fails and the second one works (alternate_ok) or fails.
extract_audio(primary_ok, alternate_ok) ==
    IF primary_ok THEN "path"
    ELSE IF alternate_ok THEN "path"
    ELSE "None"

\* A slip: --audio-only not looked at.
StopsAfterExtractionNever(only) == FALSE

\* if args.audio_only: return 0
StopsAfterExtraction(only) == only

\* The call of lines 52-57 stands in no try block: lines 60-72 run only when
\* transcribe_audio returned.
ReachesCleanUp(transcribe_outcome) == transcribe_outcome # "raised"

\* if not args.keep_audio and os.path.exists(audio_result): os.remove(...)
CleanUp(keep, file) ==
    IF ~keep /\ file \in {"partial", "complete"} THEN "removed" ELSE file

\* if transcribe_result: return 0 / else: return 1
MainReturn(transcribe_outcome) ==
    IF transcribe_outcome = "path" THEN "0" ELSE "1"

\* audio_result = extract_audio(args.video_path, audio_path)
main_extract_audio ==
    /\ main_pc = "extract_audio"
    /\ \E primary_ok \in BOOLEAN, alternate_ok \in BOOLEAN,
          leftover \in {"absent", "partial"} :
         /\ audio_result' = extract_audio(primary_ok, alternate_ok)
         /\ audio_file' = IF audio_result' = "path" THEN "complete" ELSE leftover
    /\ main_pc' = "extracted"
    /\ UNCHANGED <<pc, job_data, keep_audio, audio_only, main_return,
                   cancel_at, jobs2, disk, trespass>>

\* Lines 40-52: the two early returns, then the call of transcribe_audio.
main_after_extraction ==
    /\ main_pc = "extracted"
    /\ IF audio_result = "None"
       THEN /\ main_pc' = "done"
            /\ main_return' = "1"
            /\ pc' = pc
       ELSE IF StopsAfterExtraction(audio_only)
       THEN /\ main_pc' = "done"
            /\ main_return' = "0"
            /\ pc' = pc
       ELSE /\ main_pc' = "transcribe"
            /\ main_return' = main_return
            /\ pc' = "probe"
    /\ UNCHANGED <<job_data, keep_audio, audio_only, audio_file, audio_result,
                   cancel_at, jobs2, disk, trespass>>

\* Lines 59-72, once transcribe_audio has returned or raised.
main_after_transcription ==
    /\ main_pc = "transcribe"
    /\ pc = "done"
    /\ main_pc' = "done"
    /\ IF ReachesCleanUp(outcome)
       THEN /\ audio_file' = CleanUp(keep_audio, audio_file)
            /\ main_return' = MainReturn(outcome)
       ELSE /\ audio_file' = audio_file
            /\ main_return' = "raised"
    /\ UNCHANGED <<pc, job_data, keep_audio, audio_only, audio_result,
                   cancel_at, jobs2, disk, trespass>>

InitMain ==
    /\ pc = "idle"
    /\ \E job \in MainJobs : audio = job[1] /\ segment_length = job[2]
    /\ NothingDoneYet
    /\ main_pc = "extract_audio"
    /\ keep_audio \in BOOLEAN
    /\ audio_only \in BOOLEAN
    /\ audio_file = "absent"
    /\ audio_result = "none"
    /\ main_return = "running"
    /\ cancel_at = -1
    /\ jobs2 = <<>>
    /\ disk = {}
    /\ trespass = {}

NextMain ==
    \/ main_extract_audio
    \/ main_after_extraction
    \/ main_after_transcription
    \/ Next

SpecMain == InitMain /\ [][NextMain]_vars

(***************************************************************************)
(* Cancellation.  A caller asks for the job to stop while the window loop  *)
(* runs.  Nothing in transcribe_audio reads such a request: no parameter,  *)
(* no flag and no test at the head of the for statement of line 104.       *)
(***************************************************************************)

\* The jobs a cancellation is requested in: more than one window each.
CancelJobs ==
    {job \in Jobs : job[1] = Whole(MaxDuration) /\ job[2] \in 1..MaxSegmentLength}

\* The request, made once, at any point of the loop; it records how many
\* windows have been started so far.
request_cancel ==
    /\ pc \in {"loop", "extract", "transcribe", "write"}
    /\ cancel_at = -1
    /\ cancel_at' = Len(windows)
    /\ UNCHANGED <<pc, job_data, main_pc, keep_audio, audio_only, audio_file,
                   audio_result, main_return, jobs2, disk, trespass>>

InitCancel ==
    /\ pc = "probe"
    /\ \E job \in CancelJobs : audio = job[1] /\ segment_length = job[2]
    /\ NothingDoneYet
    /\ OuterIdle

NextCancel ==
    \/ request_cancel
    \/ Next

SpecCancel == InitCancel /\ [][NextCancel]_vars

(***************************************************************************)
(* Two transcribe_audio jobs at once in one working directory.  Each runs  *)
(* the loop of lines 104-140 on its own file; the chunk files are named by *)
(* the window's bounds alone and written to the working directory.  A step *)
(* is one access to the directory.                                         *)
(***************************************************************************)

\* Everything but the two jobs and their directory.
one_job_vars == <<pc, job_data, main_pc, keep_audio, audio_only, audio_file,
                  audio_result, main_return, cancel_at>>

TwoJobs == {1, 2}

\* The (duration, segment_length) of each of the two jobs.
TwoJobInputs ==
    {job \in Jobs : /\ job[1] \in {Time(1, HalfSecond), Whole(MaxDuration)}
                    /\ job[2] \in 1..MaxSegmentLength}

\* A job whose probe has returned, at the head of its loop.
JobAtLoop(job) ==
    [pc |-> "loop", duration |-> job[1], segment_length |-> job[2],
     starts |-> range(IntOf(job[1]), job[2]), win |-> 0,
     segment_start |-> 0, segment_end |-> NoTime]

\* A file of the working directory and the job that wrote it.
OnDisk(name, owner) == [name |-> name, owner |-> owner]

\* The file's writer, where the file exists.
OwnersOf(name) == {f.owner : f \in {g \in disk : g.name = name}}

\* The file name as text: segment_end is printed as an int ("1") when min()
\* returned segment_start + segment_length, and as a float ("1.0", "1.5") when
\* it returned the duration, which it does only when the duration is smaller.
ChunkName(start, len, dur) ==
    <<SegmentFile(start, WindowEnd(start, len, dur)),
      IF TimeLess(dur, Whole(start + len)) THEN "float" ELSE "int">>

segment_file_of(j) ==
    ChunkName(jobs2[j].segment_start, jobs2[j].segment_length, jobs2[j].duration)

\* What job j does to segment_file when the file there is not its own.
Trespass(j, did) ==
    IF OwnersOf(segment_file_of(j)) \ {j} # {} THEN {did} ELSE {}

\* for segment_start in tqdm(range(0, int(duration), segment_length))
two_for_next(j) ==
    /\ jobs2[j].pc = "loop"
    /\ LET job == jobs2[j] IN
       IF job.win < Len(job.starts)
       THEN jobs2' = [jobs2 EXCEPT ![j] =
                [job EXCEPT !.pc = "extract",
                            !.win = job.win + 1,
                            !.segment_start = job.starts[job.win + 1],
                            !.segment_end = WindowEnd(job.starts[job.win + 1],
                                                      job.segment_length,
                                                      job.duration)]]
       ELSE jobs2' = [jobs2 EXCEPT ![j].pc = "done"]
    /\ UNCHANGED <<one_job_vars, disk, trespass>>

\* extract_segment: segment.export(output_path, format="wav") writes the file,
\* over whatever is there; when it returns False the loop continues through
\* the finally clause.
two_extract_segment(j) ==
    /\ jobs2[j].pc = "extract"
    /\ \/ /\ disk' = {f \in disk : f.name # segment_file_of(j)}
                        \cup {OnDisk(segment_file_of(j), j)}
          /\ trespass' = trespass \cup Trespass(j, "overwrite")
          /\ jobs2' = [jobs2 EXCEPT ![j].pc = "transcribe"]
       \/ /\ jobs2' = [jobs2 EXCEPT ![j].pc = "finally"]
          /\ UNCHANGED <<disk, trespass>>
    /\ UNCHANGED one_job_vars

\* model.transcribe(segment_file, ...) reads the file of that name; with no
\* such file it raises, into the except clause of line 132.
two_transcribe_segment(j) ==
    /\ jobs2[j].pc = "transcribe"
    /\ trespass' = trespass \cup Trespass(j, "transcribe")
    /\ jobs2' = [jobs2 EXCEPT ![j].pc = "finally"]
    /\ UNCHANGED <<one_job_vars, disk>>

\* finally: if os.path.exists(segment_file): os.remove(segment_file)
two_finally(j) ==
    /\ jobs2[j].pc = "finally"
    /\ disk' = {f \in disk : f.name # segment_file_of(j)}
    /\ trespass' = trespass \cup Trespass(j, "delete")
    /\ jobs2' = [jobs2 EXCEPT ![j].pc = "loop"]
    /\ UNCHANGED one_job_vars

InitTwoJobs ==
    /\ pc = "idle"
    /\ audio = NoTime
    /\ segment_length = DefaultSegmentLength
    /\ NothingDoneYet
    /\ main_pc = "none"
    /\ keep_audio = FALSE
    /\ audio_only = FALSE
    /\ audio_file = "absent"
    /\ audio_result = "none"
    /\ main_return = "running"
    /\ cancel_at = -1
    /\ \E a \in TwoJobInputs, b \in TwoJobInputs :
         jobs2 = <<JobAtLoop(a), JobAtLoop(b)>>
    /\ \E before \in SUBSET {ChunkName(0, 1, Whole(MaxDuration))} :
         disk = {OnDisk(name, 0) : name \in before}
    /\ trespass = {}

NextTwoJobs ==
    \E j \in TwoJobs :
        \/ two_for_next(j)
        \/ two_extract_segment(j)
        \/ two_transcribe_segment(j)
        \/ two_finally(j)

SpecTwoJobs == InitTwoJobs /\ [][NextTwoJobs]_vars

(***************************************************************************)
(* C11.  A segment_length of zero or below is rejected: transcribe_audio   *)
(* ends with a failure, never with the output path.                        *)
(***************************************************************************)
C11_NonPositiveWindowRejected ==
    (segment_length <= 0 /\ pc = "done") => outcome = "raised"

(***************************************************************************)
(* C12.  When the probe has failed and the one whole-file call of the      *)
(* engine raises, transcribe_audio ends there with the failure: the engine *)
(* is not called again, no output file is opened, no path is returned.     *)
(***************************************************************************)
C12_FallbackEngineErrorIsFatal ==
    (probe = "failed" /\ "raised" \in Tags) =>
        /\ pc = "done"
        /\ outcome = "raised"
        /\ engine_calls = <<WholeAudio>>
        /\ sink = "absent" /\ srt_file = <<>>

\* The whole-file call has raised.
C12_Witness ==
    /\ probe = "failed" /\ Tags = {"raised"}
    /\ engine_calls = <<WholeAudio>>
    /\ outcome = "raised"

(***************************************************************************)
(* C15.  At every window boundary and at the end of the job the file of    *)
(* the segmented path is a sequence of whole cue blocks (index line,       *)
(* timestamp line, text line), and no index is written twice, also when an *)
(* exception was raised in the middle of a cue.                            *)
(***************************************************************************)
C15_OnlyWholeCueBlocks ==
    (Segmented /\ sink # "absent" /\ pc \in {"loop", "done"}) =>
        /\ Len(srt_file) % 3 = 0
        /\ \A k \in 1..Len(srt_file) :
             srt_file[k].kind = <<"index", "time", "text">>[((k - 1) % 3) + 1]
        /\ \A i, j \in 1..Len(IndexLines) :
             i # j => IndexLines[i] # IndexLines[j]

(***************************************************************************)
(* C16.  get_audio_duration is an ordered chain: the wave header first;    *)
(* pydub's decode if and only if the header read failed; the header's      *)
(* value when it was read, the decoded one when only the decode worked; an *)
(* error if and only if both failed, and then transcribe_audio goes on     *)
(* with the whole-file fallback and calls the engine on the whole file.    *)
(***************************************************************************)
C16_ProbeIsAnOrderedChain ==
    probe # "none" =>
        /\ Len(tried) \in {1, 2}
        /\ tried[1].strategy = "wave"
        /\ Len(tried) = 2 <=> ~tried[1].ok
        /\ Len(tried) = 2 => tried[2].strategy = "pydub"
        /\ tried[1].ok => (probe = "wave" /\ duration = audio)
        /\ (Len(tried) = 2 /\ tried[2].ok) =>
               (probe = "pydub" /\ duration = PydubDuration(audio))
        /\ probe = "failed" <=> (\A i \in 1..Len(tried) : ~tried[i].ok)
        /\ probe = "failed" =>
               \/ pc = "fallback" /\ outcome = "running"
               \/ engine_calls = <<WholeAudio>>
        /\ probe # "failed" => (pc # "fallback" /\ WholeAudio \notin
                                   {engine_calls[i] : i \in 1..Len(engine_calls)})

\* Both strategies failed and the job has returned the path all the same.
C16_Witness ==
    /\ tried = <<Attempt("wave", FALSE), Attempt("pydub", FALSE)>>
    /\ probe = "failed"
    /\ pc = "done" /\ outcome = "path"

(***************************************************************************)
(* C13.  In generate_srt's main, once the job is over and transcription    *)
(* was invoked: without --keep-audio the extracted audio file no longer    *)
(* exists, whatever transcribe_audio did (returned or raised); with        *)
(* --keep-audio it is still there.                                         *)
(***************************************************************************)
C13_AudioRemovedUnlessKept ==
    (main_pc = "done" /\ pc = "done") =>
        /\ ~keep_audio => audio_file \in {"absent", "removed"}
        /\ keep_audio => audio_file = "complete"

(***************************************************************************)
(* C18.  In generate_srt's main, transcribe_audio is invoked only after    *)
(* extract_audio returned a path and --audio-only is not set.  When        *)
(* extract_audio returned None, main returns 1, transcribe_audio is not    *)
(* called and nothing is removed; with --audio-only main returns 0,        *)
(* transcribe_audio is not called and the audio file is kept, --keep-audio *)
(* or not; otherwise main returns 0 exactly when transcribe_audio returned *)
(* the output path.                                                        *)
(***************************************************************************)
C18_TranscriptionOnlyAfterExtraction ==
    /\ pc # "idle" => (audio_result = "path" /\ ~audio_only)
    /\ pc = "idle" => (engine_calls = <<>> /\ probe = "none" /\ sink = "absent")
    /\ audio_result = "None" =>
           /\ pc = "idle"
           /\ audio_file # "removed"
           /\ main_return = IF main_pc = "done" THEN "1" ELSE "running"
    /\ (audio_result = "path" /\ audio_only) =>
           /\ pc = "idle"
           /\ audio_file = "complete"
           /\ main_return = IF main_pc = "done" THEN "0" ELSE "running"
    /\ (main_pc = "done" /\ pc # "idle") =>
           (main_return = "0" <=> outcome = "path")
    /\ main_return = "1" => audio_result = "None"

\* Extraction worked, --audio-only was not given, and main has returned 0
\* after a transcription that wrote a cue.
C18_Witness ==
    /\ main_pc = "done" /\ main_return = "0"
    /\ audio_result = "path" /\ ~audio_only /\ ~keep_audio
    /\ outcome = "path" /\ audio_file = "removed"
    /\ Len(srt_file) >= 3

(***************************************************************************)
(* C14.  Abort between windows: once a cancellation has been requested     *)
(* while the window loop runs, no further window is started, and the job   *)
(* ends with no chunk file left.                                           *)
(***************************************************************************)
C14_NoWindowAfterCancel ==
    cancel_at # -1 =>
        /\ Len(windows) = cancel_at
        /\ pc = "done" => files = {}

(***************************************************************************)
(* C17.  A chunk file belongs to the window processing that wrote it: with *)
(* two jobs running at once in one working directory, or a file of the     *)
(* same name there from before, no job overwrites, transcribes or deletes  *)
(* a chunk file it did not write itself.                                   *)
(***************************************************************************)
C17_ChunkExclusivelyOwned ==
    trespass = {}

====
